---- MODULE Spec2Model ----
(***************************************************************************)
(* Differential verification harness of the MarkovJunior port:             *)
(*   scripts/compare_grids.py        cell-level comparator                  *)
(*   scripts/batch_verify.py         batch orchestrator and ledger update   *)
(*   scripts/verification_status.py  single-model verify and ledger         *)
(***************************************************************************)
EXTENDS Integers, Sequences, FiniteSets, TLC

\* ------------------------------------------------------------------ bounds
\* Largest extent of a grid along one axis.
MaxExtent == 2
\* Longest state sequence an artifact holds.
MaxCells == 3
\* Largest palette index of a cell.
MaxValue == 1

\* --------------------------------------------------------------- artifacts
\* A float is kept as the exact fraction <<numerator, denominator>> in lowest
\* terms, so that equality of floats is equality of tuples.
RECURSIVE GCD(_, _)
GCD(a, b) == IF b = 0 THEN a ELSE GCD(b, a % b)

Float(n, d) == LET g == GCD(n, d) IN <<n \div g, d \div g>>

Zero == Float(0, 1)

Hundred == Float(100, 1)

\* 100.0 * matches / total
Percent(matches, total) == Float(100 * matches, total)

\* f"{accuracy:.2f}": the percentage in hundredths, rounded half to even.
Fmt2(matches, total) ==
    LET n == 10000 * matches
        q == n \div total
        r == n % total
    IN  IF 2 * r > total THEN q + 1
        ELSE IF 2 * r = total THEN q + (q % 2)
        ELSE q

Dimensions ==
    {d \in (0..MaxExtent) \X (0..MaxExtent) \X (0..MaxExtent) :
        /\ d[1] * d[2] * d[3] <= MaxCells
        /\ (d[1] = 0 \/ d[2] = 0 \/ d[3] = 0) => d = <<0, 0, 0>>}

States == UNION {[1..n -> 0..MaxValue] : n \in 0..MaxCells}

\* The grid state JSON file an engine dumps: "dimensions" and "state".
Artifacts == [dimensions : Dimensions, state : States]

Min(a, b) == IF a < b THEN a ELSE b

\* zip(cs_state, rs_state): the positions both sequences have.
Zip(cs, rs) == 1..Min(Len(cs), Len(rs))

\* Matches with the last cell left out of the scan.
MatchesButLast(cs, rs) == Cardinality({k \in Zip(cs, rs) : cs[k] = rs[k] /\ k < Len(cs)})

\* sum(1 for c, r in zip(cs_state, rs_state) if c == r)
Matches(cs, rs) == Cardinality({k \in Zip(cs, rs) : cs[k] = rs[k]})

\* ------------------------------------------------- compare_grids.compare
\* Difference with the row taken from the height instead of the width.
DifferenceDividesByHeight(i, mx, my, c, r) ==
    [index |-> i, x |-> i % mx, y |-> (i \div my) % my, z |-> i \div (mx * my),
     csharp |-> c, rust |-> r]

\* One entry of result["differences"]; i is the 0-based index of the cell.
Difference(i, mx, my, c, r) ==
    [index |-> i, x |-> i % mx, y |-> (i \div mx) % my, z |-> i \div (mx * my),
     csharp |-> c, rust |-> r]

Differences(csharp, rust) ==
    LET cs == csharp.state
        rs == rust.state
        mx == csharp.dimensions[1]
        my == csharp.dimensions[2]
        n  == Min(Len(cs), Len(rs))
        ks == SelectSeq([k \in 1..n |-> k], LAMBDA k : cs[k] # rs[k])
    IN  [j \in 1..Len(ks) |-> Difference(ks[j] - 1, mx, my, cs[ks[j]], rs[ks[j]])]

\* object.get(key, default)
Get(object, key, default) == IF key \in DOMAIN object THEN object[key] ELSE default

\* SameShape asking for equal palettes as well.
SameShapeAndPalette(csharp, rust) ==
    /\ csharp.dimensions = rust.dimensions
    /\ Get(csharp, "characters", "") = Get(rust, "characters", "")

\* csharp["dimensions"] == rust["dimensions"]
SameShape(csharp, rust) == csharp.dimensions = rust.dimensions

\* The result dict as a function of its keys; raised names the exception that
\* escapes instead ("" when the call returns).
GridsCompare(csharp, rust) ==
    LET base == [model             |-> Get(csharp, "model", "unknown"),
                 seed              |-> Get(csharp, "seed", -1),
                 csharp_dimensions |-> csharp.dimensions,
                 rust_dimensions   |-> rust.dimensions,
                 dimensions_match  |-> SameShape(csharp, rust),
                 total_cells       |-> Len(csharp.state),
                 matching_cells    |-> 0,
                 differences       |-> <<>>]
        mx == csharp.dimensions[1]
        my == csharp.dimensions[2]
        matching == Matches(csharp.state, rust.state)
        total == Len(csharp.state)
    IN  IF ~base.dimensions_match
        THEN [raised |-> "", result |-> base]
        ELSE IF /\ \E k \in Zip(csharp.state, rust.state) : csharp.state[k] # rust.state[k]
                /\ (mx = 0 \/ my = 0)
        THEN [raised |-> "ZeroDivisionError", result |-> base]
        ELSE [raised |-> "",
              result |->
                [model             |-> base.model,
                 seed              |-> base.seed,
                 csharp_dimensions |-> csharp.dimensions,
                 rust_dimensions   |-> rust.dimensions,
                 dimensions_match  |-> TRUE,
                 total_cells       |-> total,
                 matching_cells    |-> matching,
                 differences       |-> Differences(csharp, rust),
                 accuracy          |-> IF total > 0 THEN Percent(matching, total) ELSE Hundred,
                 is_perfect        |-> Len(Differences(csharp, rust)) = 0]]

\* --------------------------------------------------- batch_verify.compare
\* A message is its fixed text (kind) and the numbers formatted into it.
Message(kind, args) == [kind |-> kind, args |-> args]

\* A file that json.load rejects.
NotJson == [text |-> "not json"]

Unreadable(file) == file = NotJson

\* key in the object json.load returned
HasKey(object, key) == key \in DOMAIN object

\* A file slot is <<>> when the file is absent and <<artifact>> when present.
\* The value has no field but raised when an exception escapes the call.
BatchCompare(csharp_file, rust_file) ==
    IF Len(csharp_file) = 0
    THEN [is_match |-> FALSE, accuracy |-> Zero, message |-> Message("No C# reference", <<>>)]
    ELSE IF Len(rust_file) = 0
    THEN [is_match |-> FALSE, accuracy |-> Zero, message |-> Message("No Rust output", <<>>)]
    ELSE
    LET csharp == csharp_file[1]
        rust == rust_file[1]
        cs_state == csharp.state
        rs_state == rust.state
        matches == Matches(cs_state, rs_state)
    IN  IF Unreadable(csharp) \/ Unreadable(rust)
        THEN [is_match |-> FALSE, accuracy |-> Zero, message |-> Message("JSON error", <<>>)]
        ELSE IF ~HasKey(csharp, "dimensions") \/ ~HasKey(rust, "dimensions")
        THEN [raised |-> "KeyError"]
        ELSE IF ~SameShape(csharp, rust)
        THEN [is_match |-> FALSE, accuracy |-> Zero,
              message |-> Message("Dim mismatch", csharp.dimensions \o rust.dimensions)]
        ELSE IF ~HasKey(csharp, "state") \/ ~HasKey(rust, "state")
        THEN [raised |-> "KeyError"]
        ELSE IF Len(cs_state) # Len(rs_state)
        THEN [is_match |-> FALSE, accuracy |-> Zero,
              message |-> Message("Length mismatch", <<Len(cs_state), Len(rs_state)>>)]
        ELSE IF matches = Len(cs_state)
        THEN [is_match |-> TRUE, accuracy |-> Hundred, message |-> Message("MATCH", <<>>)]
        ELSE [is_match |-> FALSE, accuracy |-> Percent(matches, Len(cs_state)),
              message |-> Message("differ", <<Fmt2(matches, Len(cs_state)),
                                              Len(cs_state) - matches>>)]

\* ---------------------------------- verification_status.compare_outputs
CompareOutputs(csharp_file, rust_file) ==
    IF Len(csharp_file) = 0
    THEN [raised |-> "", is_match |-> FALSE, accuracy |-> Zero,
          details |-> Message("C# reference not found", <<>>)]
    ELSE IF Len(rust_file) = 0
    THEN [raised |-> "", is_match |-> FALSE, accuracy |-> Zero,
          details |-> Message("Rust output not found", <<>>)]
    ELSE
    LET csharp == csharp_file[1]
        rust == rust_file[1]
        csharp_state == csharp.state
        rust_state == rust.state
        matches == Matches(csharp_state, rust_state)
    IN  IF ~SameShape(csharp, rust)
        THEN [raised |-> "", is_match |-> FALSE, accuracy |-> Zero,
              details |-> Message("Dimension mismatch", csharp.dimensions \o rust.dimensions)]
        ELSE IF Len(csharp_state) # Len(rust_state)
        THEN [raised |-> "", is_match |-> FALSE, accuracy |-> Zero,
              details |-> Message("State length mismatch",
                                  <<Len(csharp_state), Len(rust_state)>>)]
        ELSE IF Len(csharp_state) = 0
        THEN [raised |-> "ZeroDivisionError"]
        ELSE IF matches = Len(csharp_state)
        THEN [raised |-> "", is_match |-> TRUE, accuracy |-> Hundred,
              details |-> Message("PERFECT MATCH", <<>>)]
        ELSE [raised |-> "", is_match |-> FALSE,
              accuracy |-> Percent(matches, Len(csharp_state)),
              details |-> Message("cells differ",
                                  <<Len(csharp_state) - matches,
                                    Fmt2(matches, Len(csharp_state))>>)]

\* ------------------------------------------------------------------ state
\* Longest explicit model name list given on the batch command line.
MaxTargets == 2
\* Number of distinct values the `date` call of cmd_verify can return.
MaxStamp == 2

\* Most models of a catalog.
MaxCatalog == 3

\* Largest extent of the grids the index decomposition is applied to.
MaxAxis == 3

\* --seed default
DefaultSeed == 42

VARIABLES
    all_models,   \* get_all_models(): the catalog parsed from models.xml
    engineRange,  \* grid states the external engines can dump
    seed,         \* --seed of the commands
    csharpDir,    \* CSHARP_DIR: model -> file slot of <model>_seed<seed>.json
    rustDir,      \* RUST_DIR:   model -> file slot of <model>_seed<seed>.json
    statusFile,   \* STATUS_FILE: file slot of verification/status.json
    pc,           \* position of batch_verify.main
    to_verify,    \* main: the target list
    regenerate,   \* main: args.regenerate
    results,      \* main: the result dicts collected so far
    verified,     \* main: counter
    failed,       \* main: counter
    task,         \* verify_model: 0 when no task runs, else its index in to_verify
    calls,        \* engines invoked by the running verify_model call, in order
    status,       \* update_status: the dict being merged
    k,            \* update_status: index of the next result to merge
    verifyOut,    \* what the last cmd_verify printed last, and its exit status
    cmpCsharp,    \* comparator inputs
    cmpRust,
    cmpOut        \* last comparator result

vars == <<all_models, engineRange, seed, csharpDir, rustDir, statusFile, pc, to_verify,
          regenerate, results, verified, failed, task, calls, status, k,
          verifyOut, cmpCsharp, cmpRust, cmpOut>>

storeVars == <<csharpDir, rustDir>>

batchVars == <<pc, to_verify, regenerate, results, verified, failed, task,
               calls, status, k>>

cmpVars == <<cmpCsharp, cmpRust, cmpOut>>

\* SKIP_MODELS (one of its names is kept)
SKIP_MODELS == {"WaveFlowers"}

\* Model names of models.xml the stores hold files of.
ModelNames == {"Basic", "Growth", "WaveFlowers"}

\* The names of the catalog.
Models == {all_models[j].name : j \in 1..Len(all_models)}

Seeds == {DefaultSeed, DefaultSeed + 1}

envVars == <<all_models, engineRange, seed>>

\* An empty dict.
EmptyDict == [j \in {} |-> 0]

DictPut(d, key, value) == (key :> value) @@ d

DictDel(d, key) == [j \in DOMAIN d \ {key} |-> d[j]]

\* {"verified": {}, "failed": {}, "skipped": {}}
EmptyStatus == [verified |-> EmptyDict, failed |-> EmptyDict, skipped |-> EmptyDict]

\* What one invocation of an external engine does: what the harness sees of
\* the process (signal) and the file the process leaves (wrote, <<>> for none).
EngineOutcomes(range) ==
    {o \in [signal : {"dumped", "quiet", "timeout", "error"},
            wrote  : {<<>>} \cup {<<a>> : a \in range}] :
        o.signal = "error" => o.wrote = <<>>}

\* One subprocess.run of an engine, as logged in calls.
Call(engine, o) == [engine |-> engine, signal |-> o.signal]

\* The file slot after an engine ran over it.
Written(slot, o) == IF o.wrote = <<>> THEN slot ELSE o.wrote

\* ------------------------------------------------------ batch_verify.main
\* The parsed command line of batch_verify.py.
BatchArgs ==
    [all : BOOLEAN, all_2d : BOOLEAN, regenerate : BOOLEAN,
     models : UNION {[1..n -> Models] : n \in 0..MaxTargets}]

Names(ms) == [j \in 1..Len(ms) |-> ms[j].name]

models_2d == SelectSeq(all_models, LAMBDA m : ~m.is_3d /\ m.name \notin SKIP_MODELS)

\* Targets with the skip list left out of the --all selection.
TargetsAllKeepsSkipped(args) ==
    IF args.all THEN Names(all_models)
    ELSE IF args.all_2d THEN Names(models_2d)
    ELSE args.models

\* main: "Determine which models to verify"
Targets(args) ==
    IF args.all
    THEN Names(SelectSeq(all_models, LAMBDA m : m.name \notin SKIP_MODELS))
    ELSE IF args.all_2d THEN Names(models_2d)
    ELSE args.models

\* main: the loop head, entered for the first model or after a task ended.
NextTask(n, targets) ==
    IF n <= Len(targets)
    THEN /\ pc' = "verify_model"
         /\ task' = n
    ELSE /\ pc' = "update_status"
         /\ task' = 0

\* main, from parse_args to the head of the loop over to_verify.
BatchStart(args) ==
    /\ pc = "idle"
    /\ args.all \/ args.all_2d \/ args.models # <<>>
    /\ to_verify' = Targets(args)
    /\ regenerate' = args.regenerate
    /\ results' = <<>>
    /\ verified' = 0
    /\ failed' = 0
    /\ calls' = <<>>
    /\ NextTask(1, Targets(args))
    /\ UNCHANGED <<envVars, storeVars, statusFile, status, k, verifyOut, cmpVars>>

\* FinishTask counting as failed only the results of a comparison.
FinishTaskCountsCompared(result) ==
    /\ results' = Append(results, result)
    /\ verified' = IF result.status = "verified" THEN verified + 1 ELSE verified
    /\ failed' = IF result.status = "failed" THEN failed + 1 ELSE failed
    /\ NextTask(task + 1, to_verify)

\* main: the body of the loop after verify_model returned result.
FinishTask(result) ==
    /\ results' = Append(results, result)
    /\ verified' = IF result.status = "verified" THEN verified + 1 ELSE verified
    /\ failed' = IF result.status = "verified" THEN failed ELSE failed + 1
    /\ NextTask(task + 1, to_verify)

\* ----------------------------------------------- batch_verify.verify_model
\* VerifyModelBegin unlinking the reference file only.
VerifyModelBeginKeepsRust ==
    /\ pc = "verify_model"
    /\ LET model_name == to_verify[task]
       IN  IF regenerate
           THEN /\ csharpDir' = [csharpDir EXCEPT ![model_name] = <<>>]
                /\ UNCHANGED rustDir
           ELSE UNCHANGED storeVars
    /\ calls' = <<>>
    /\ pc' = "generate_csharp"
    /\ UNCHANGED <<envVars, statusFile, to_verify, regenerate, results,
                   verified, failed, task, status, k, verifyOut, cmpVars>>

\* verify_model up to its first adapter call: the regenerate branch.
VerifyModelBegin ==
    /\ pc = "verify_model"
    /\ LET model_name == to_verify[task]
       IN  IF regenerate
           THEN /\ csharpDir' = [csharpDir EXCEPT ![model_name] = <<>>]
                /\ rustDir' = [rustDir EXCEPT ![model_name] = <<>>]
           ELSE UNCHANGED storeVars
    /\ calls' = <<>>
    /\ pc' = "generate_csharp"
    /\ UNCHANGED <<envVars, statusFile, to_verify, regenerate, results,
                   verified, failed, task, status, k, verifyOut, cmpVars>>

\* generate_csharp after the subprocess ended with outcome o.
CsharpReturn(o) == o.signal = "dumped"

\* generate_rust after the subprocess ended with outcome o over file slot.
RustReturn(slot, o) == o.signal \in {"dumped", "quiet"} /\ Written(slot, o) # <<>>

\* The result dict of a task that ends on a generation failure.
FailedResult(model_name, status_, message) ==
    [name |-> model_name, seed |-> seed, status |-> status_,
     message |-> Message(message, <<>>)]

\* AfterCsharp going on to the candidate adapter whatever the reference did.
AfterCsharpIgnoresFailure(ok, model_name) ==
    /\ pc' = "generate_rust"
    /\ UNCHANGED <<results, verified, failed, task>>

\* verify_model: where a task goes when generate_csharp returned ok.
AfterCsharp(ok, model_name) ==
    IF ok
    THEN /\ pc' = "generate_rust"
         /\ UNCHANGED <<results, verified, failed, task>>
    ELSE FinishTask(FailedResult(model_name, "csharp_failed", "C# generation failed"))

\* verify_model: the call of generate_csharp and the branch on its value.
GenerateCsharp ==
    /\ pc = "generate_csharp"
    /\ LET model_name == to_verify[task]
       IN  IF csharpDir[model_name] # <<>>
           THEN /\ UNCHANGED <<csharpDir, calls>>
                /\ AfterCsharp(TRUE, model_name)
           ELSE \E o \in EngineOutcomes(engineRange) :
                  /\ calls' = Append(calls, Call("csharp", o))
                  /\ csharpDir' = [csharpDir EXCEPT ![model_name] = Written(@, o)]
                  /\ AfterCsharp(CsharpReturn(o), model_name)
    /\ UNCHANGED <<envVars, rustDir, statusFile, to_verify, regenerate,
                   status, k, verifyOut, cmpVars>>

\* verify_model: where a task goes when generate_rust returned ok.
AfterRust(ok, model_name) ==
    IF ok
    THEN /\ pc' = "compare"
         /\ UNCHANGED <<results, verified, failed, task>>
    ELSE FinishTask(FailedResult(model_name, "rust_failed", "Rust generation failed"))

\* GenerateRust running the engine whether or not the output file is there.
GenerateRustAlwaysRuns ==
    /\ pc = "generate_rust"
    /\ LET model_name == to_verify[task]
       IN  \E o \in EngineOutcomes(engineRange) :
              /\ calls' = Append(calls, Call("rust", o))
              /\ rustDir' = [rustDir EXCEPT ![model_name] = Written(@, o)]
              /\ AfterRust(RustReturn(rustDir[model_name], o), model_name)
    /\ UNCHANGED <<envVars, csharpDir, statusFile, to_verify, regenerate,
                   status, k, verifyOut, cmpVars>>

\* verify_model: the call of generate_rust and the branch on its value.
GenerateRust ==
    /\ pc = "generate_rust"
    /\ LET model_name == to_verify[task]
       IN  IF rustDir[model_name] # <<>>
           THEN /\ UNCHANGED <<rustDir, calls>>
                /\ AfterRust(TRUE, model_name)
           ELSE \E o \in EngineOutcomes(engineRange) :
                  /\ calls' = Append(calls, Call("rust", o))
                  /\ rustDir' = [rustDir EXCEPT ![model_name] = Written(@, o)]
                  /\ AfterRust(RustReturn(rustDir[model_name], o), model_name)
    /\ UNCHANGED <<envVars, csharpDir, statusFile, to_verify, regenerate,
                   status, k, verifyOut, cmpVars>>

\* CompareResult passing every comparison that found some cell equal.
CompareResultPassesPartial(model_name, c) ==
    [name |-> model_name, seed |-> seed, accuracy |-> c.accuracy,
     message |-> c.message,
     status |-> IF c.accuracy # Zero THEN "verified" ELSE "failed"]

\* verify_model: the result dict built from compare's tuple.
CompareResult(model_name, c) ==
    [name |-> model_name, seed |-> seed, accuracy |-> c.accuracy,
     message |-> c.message,
     status |-> IF c.is_match THEN "verified" ELSE "failed"]

\* verify_model: the call of compare and the classification of its value.
Compare ==
    /\ pc = "compare"
    /\ LET model_name == to_verify[task]
           c == BatchCompare(csharpDir[model_name], rustDir[model_name])
       IN  IF "raised" \in DOMAIN c
           THEN \* the exception leaves verify_model and main
                /\ pc' = "traceback"
                /\ UNCHANGED <<results, verified, failed, task>>
           ELSE FinishTask(CompareResult(model_name, c))
    /\ UNCHANGED <<envVars, storeVars, statusFile, to_verify, regenerate,
                   calls, status, k, verifyOut, cmpVars>>

\* --------------------------------------------- batch_verify.update_status
\* load_status, and the head of update_status: the file, or the empty ledger.
LoadStatus == IF statusFile = <<>> THEN EmptyStatus ELSE statusFile[1]

\* Record with the failed entry left in place on a verified result.
RecordKeepsFailed(st, r) ==
    IF r.status = "verified"
    THEN [st EXCEPT !.verified = DictPut(@, r.name, [seed |-> r.seed, accuracy |-> r.accuracy])]
    ELSE IF r.status = "failed"
    THEN [st EXCEPT !.failed = DictPut(@, r.name,
                                 [seed |-> r.seed,
                                  accuracy |-> IF "accuracy" \in DOMAIN r THEN r.accuracy ELSE Zero,
                                  reason |-> r.message])]
    ELSE st

\* Record with the verified entry erased on a failed result.
RecordFailedErasesVerified(st, r) ==
    IF r.status = "verified"
    THEN [st EXCEPT !.verified = DictPut(@, r.name, [seed |-> r.seed, accuracy |-> r.accuracy]),
                    !.failed = DictDel(@, r.name)]
    ELSE IF r.status = "failed"
    THEN [st EXCEPT !.failed = DictPut(@, r.name,
                                 [seed |-> r.seed,
                                  accuracy |-> IF "accuracy" \in DOMAIN r THEN r.accuracy ELSE Zero,
                                  reason |-> r.message]),
                    !.verified = DictDel(@, r.name)]
    ELSE st

\* Record writing a ledger without the skipped entries it read.
RecordDropsSkipped(st, r) ==
    IF r.status = "verified"
    THEN [st EXCEPT !.verified = DictPut(@, r.name, [seed |-> r.seed, accuracy |-> r.accuracy]),
                    !.failed = DictDel(@, r.name),
                    !.skipped = EmptyDict]
    ELSE IF r.status = "failed"
    THEN [st EXCEPT !.failed = DictPut(@, r.name,
                                 [seed |-> r.seed,
                                  accuracy |-> IF "accuracy" \in DOMAIN r THEN r.accuracy ELSE Zero,
                                  reason |-> r.message]),
                    !.skipped = EmptyDict]
    ELSE st

\* update_status: the body of the loop over results, for one result r.
Record(st, r) ==
    IF r.status = "verified"
    THEN [st EXCEPT !.verified = DictPut(@, r.name, [seed |-> r.seed, accuracy |-> r.accuracy]),
                    !.failed = DictDel(@, r.name)]
    ELSE IF r.status = "failed"
    THEN [st EXCEPT !.failed = DictPut(@, r.name,
                                 [seed |-> r.seed,
                                  accuracy |-> IF "accuracy" \in DOMAIN r THEN r.accuracy ELSE Zero,
                                  reason |-> r.message])]
    ELSE st

UpdateLoad ==
    /\ pc = "update_status"
    /\ status' = LoadStatus
    /\ k' = 1
    /\ pc' = "update_status_merge"
    /\ UNCHANGED <<envVars, storeVars, statusFile, to_verify, regenerate,
                   results, verified, failed, task, calls, verifyOut, cmpVars>>

\* UpdateMerge saving the ledger after each merged result.
UpdateMergeSaves ==
    /\ pc = "update_status_merge"
    /\ k <= Len(results)
    /\ status' = Record(status, results[k])
    /\ statusFile' = <<Record(status, results[k])>>
    /\ k' = k + 1
    /\ UNCHANGED <<envVars, storeVars, pc, to_verify, regenerate,
                   results, verified, failed, task, calls, verifyOut, cmpVars>>

\* update_status: one turn of the loop over results.
UpdateMerge ==
    /\ pc = "update_status_merge"
    /\ k <= Len(results)
    /\ status' = Record(status, results[k])
    /\ k' = k + 1
    /\ UNCHANGED <<envVars, storeVars, statusFile, pc, to_verify, regenerate,
                   results, verified, failed, task, calls, verifyOut, cmpVars>>

\* UpdateSave merging the results into the file as it is at the write.
UpdateSaveRereads ==
    /\ pc = "update_status_merge"
    /\ k > Len(results)
    /\ statusFile' = <<IF results = <<>> THEN LoadStatus
                       ELSE Record(LoadStatus, results[Len(results)])>>
    /\ pc' = "report"
    /\ UNCHANGED <<envVars, storeVars, to_verify, regenerate, results,
                   verified, failed, task, calls, status, k, verifyOut, cmpVars>>

\* update_status: the write of the file.
UpdateSave ==
    /\ pc = "update_status_merge"
    /\ k > Len(results)
    /\ statusFile' = <<status>>
    /\ pc' = "report"
    /\ UNCHANGED <<envVars, storeVars, to_verify, regenerate, results,
                   verified, failed, task, calls, status, k, verifyOut, cmpVars>>

\* main: the summary lines, and the end of the process.
Report ==
    /\ pc = "report"
    /\ pc' = "idle"
    /\ to_verify' = <<>>
    /\ regenerate' = FALSE
    /\ results' = <<>>
    /\ verified' = 0
    /\ failed' = 0
    /\ calls' = <<>>
    /\ status' = EmptyStatus
    /\ k' = 0
    /\ UNCHANGED <<envVars, storeVars, statusFile, task, verifyOut, cmpVars>>

\* main dies on an exception of a task: no update_status, no summary.
BatchAbort ==
    /\ pc = "traceback"
    /\ pc' = "idle"
    /\ to_verify' = <<>>
    /\ regenerate' = FALSE
    /\ results' = <<>>
    /\ verified' = 0
    /\ failed' = 0
    /\ task' = 0
    /\ calls' = <<>>
    /\ UNCHANGED <<envVars, storeVars, statusFile, status, k, verifyOut, cmpVars>>

\* ------------------------------------------ verification_status.cmd_verify
\* VerifyRecord with the failed entry left in place on a match.
VerifyRecordKeepsFailed(st, model_name, c, now) ==
    IF c.is_match
    THEN [st EXCEPT !.verified = DictPut(@, model_name,
                                   [seed |-> seed, accuracy |-> c.accuracy,
                                    verified_at |-> now])]
    ELSE [st EXCEPT !.failed = DictPut(@, model_name,
                                 [seed |-> seed, accuracy |-> c.accuracy,
                                  reason |-> c.details])]

\* cmd_verify: "Update status" for a comparison c, stamped verified_at = now.
VerifyRecord(st, model_name, c, now) ==
    IF c.is_match
    THEN [st EXCEPT !.verified = DictPut(@, model_name,
                                   [seed |-> seed, accuracy |-> c.accuracy,
                                    verified_at |-> now]),
                    !.failed = DictDel(@, model_name)]
    ELSE [st EXCEPT !.failed = DictPut(@, model_name,
                                 [seed |-> seed, accuracy |-> c.accuracy,
                                  reason |-> c.details])]

\* What the command printed last, and the exit status of the process.
Printed(model_name, line, exit) == [name |-> model_name, line |-> line, exit |-> exit]

\* CmdVerifyRun recording the missing Rust output as a failure.
CmdVerifyRunRecordsMissing(model_name, o, now) ==
    /\ LET generate == csharpDir[model_name] = <<>>
           csharp_file == IF generate THEN Written(csharpDir[model_name], o)
                          ELSE csharpDir[model_name]
           c == CompareOutputs(csharp_file, rustDir[model_name])
       IN  /\ csharpDir' = [csharpDir EXCEPT ![model_name] = csharp_file]
           /\ calls' = IF generate THEN <<Call("csharp", o)>> ELSE <<>>
           /\ IF generate /\ o.signal \in {"timeout", "error"}
              THEN \* subprocess.run raises, nothing catches it
                   /\ verifyOut' = Printed(model_name, "Traceback", 1)
                   /\ UNCHANGED statusFile
              ELSE IF generate /\ o.signal # "dumped"
              THEN /\ verifyOut' = Printed(model_name, "FAILED: Could not generate C# reference", 0)
                   /\ UNCHANGED statusFile
              ELSE IF rustDir[model_name] = <<>>
              THEN /\ verifyOut' = Printed(model_name, "Rust output not found", 0)
                   /\ statusFile' = <<VerifyRecord(LoadStatus, model_name, c, now)>>
              ELSE IF c.raised # ""
              THEN /\ verifyOut' = Printed(model_name, "Traceback", 1)
                   /\ UNCHANGED statusFile
              ELSE /\ statusFile' = <<VerifyRecord(LoadStatus, model_name, c, now)>>
                   /\ verifyOut' = Printed(model_name,
                                           IF c.is_match THEN "PASSED" ELSE "FAILED", 0)
    /\ UNCHANGED <<envVars, rustDir, to_verify, regenerate, results,
                   verified, failed, task, status, k, cmpVars>>

\* cmd_verify for model_name, from its first line to its last; o is what the
\* C# engine does if it is invoked and now is what `date` returns if called.
CmdVerifyRun(model_name, o, now) ==
    /\ LET generate == csharpDir[model_name] = <<>>
           csharp_file == IF generate THEN Written(csharpDir[model_name], o)
                          ELSE csharpDir[model_name]
           c == CompareOutputs(csharp_file, rustDir[model_name])
       IN  /\ csharpDir' = [csharpDir EXCEPT ![model_name] = csharp_file]
           /\ calls' = IF generate THEN <<Call("csharp", o)>> ELSE <<>>
           /\ IF generate /\ o.signal \in {"timeout", "error"}
              THEN \* subprocess.run raises, nothing catches it
                   /\ verifyOut' = Printed(model_name, "Traceback", 1)
                   /\ UNCHANGED statusFile
              ELSE IF generate /\ o.signal # "dumped"
              THEN /\ verifyOut' = Printed(model_name, "FAILED: Could not generate C# reference", 0)
                   /\ UNCHANGED statusFile
              ELSE IF rustDir[model_name] = <<>>
              THEN /\ verifyOut' = Printed(model_name, "Rust output not found", 0)
                   /\ UNCHANGED statusFile
              ELSE IF c.raised # ""
              THEN /\ verifyOut' = Printed(model_name, "Traceback", 1)
                   /\ UNCHANGED statusFile
              ELSE /\ statusFile' = <<VerifyRecord(LoadStatus, model_name, c, now)>>
                   /\ verifyOut' = Printed(model_name,
                                           IF c.is_match THEN "PASSED" ELSE "FAILED", 0)
    /\ UNCHANGED <<envVars, rustDir, to_verify, regenerate, results,
                   verified, failed, task, status, k, cmpVars>>

\* verification_status.py verify, run while no other command runs.
CmdVerify(model_name, o, now) ==
    /\ pc = "idle"
    /\ pc' = "cmd_verify_exit"
    /\ CmdVerifyRun(model_name, o, now)

\* verification_status.py verify, run from start to end by another process
\* while update_status of a batch run is between its read and its write of
\* the ledger file.
OverlapVerify(model_name, o, now) ==
    /\ pc = "update_status_merge"
    /\ verifyOut.line = ""
    /\ UNCHANGED pc
    /\ CmdVerifyRun(model_name, o, now)

\* The process of cmd_verify ends.
VerifyExit ==
    /\ pc = "cmd_verify_exit"
    /\ pc' = "idle"
    /\ calls' = <<>>
    /\ verifyOut' = Printed("", "", 0)
    /\ UNCHANGED <<envVars, storeVars, statusFile, to_verify, regenerate,
                   results, verified, failed, task, status, k, cmpVars>>

\* ------------------------------------------ verification_status.cmd_status
\* KNOWN_UNSUPPORTED (one of its names is kept)
KNOWN_UNSUPPORTED == {"WaveFlowers"}

\* TEST_MODELS (one of its names is kept)
TEST_MODELS == {"RiverTest1"}

\* len([m for m in real_models if m["name"] in names])
CountIn(real_models, names) ==
    Cardinality({j \in 1..Len(real_models) : real_models[j].name \in names})

\* cmd_status: the counts it prints for catalog models and ledger st.
StatusCounts(models, st) ==
    LET real_models == SelectSeq(models, LAMBDA m : m.name \notin TEST_MODELS)
        verified_ == DOMAIN st.verified
        failed_ == DOMAIN st.failed
        skipped_ == DOMAIN st.skipped \cup KNOWN_UNSUPPORTED
        total == Len(real_models)
        verified_count == CountIn(real_models, verified_)
        failed_count == CountIn(real_models, failed_)
        skipped_count == CountIn(real_models, skipped_)
    IN  [total |-> total, verified |-> verified_count, failed |-> failed_count,
         skipped |-> skipped_count,
         pending |-> total - verified_count - failed_count - skipped_count]

\* verification_status.py status
CmdStatus ==
    /\ pc = "idle"
    /\ pc' = "cmd_status_exit"
    /\ verifyOut' =
         IF Len(SelectSeq(all_models, LAMBDA m : m.name \notin TEST_MODELS)) = 0
         THEN \* 100*verified_count/total
              [name |-> "", line |-> "Traceback", exit |-> 1]
         ELSE [name |-> "", line |-> "status", exit |-> 0,
               counts |-> StatusCounts(all_models, LoadStatus)]
    /\ UNCHANGED <<envVars, storeVars, statusFile, to_verify, regenerate, results,
                   verified, failed, task, calls, status, k, cmpVars>>

\* The process of cmd_status ends.
StatusExit ==
    /\ pc = "cmd_status_exit"
    /\ pc' = "idle"
    /\ verifyOut' = Printed("", "", 0)
    /\ UNCHANGED <<envVars, storeVars, statusFile, to_verify, regenerate, results,
                   verified, failed, task, calls, status, k, cmpVars>>

\* ------------------------------------------------------ comparator calls
FrozenStore == <<envVars, storeVars, statusFile, batchVars, verifyOut>>

RunGridsCompare ==
    /\ cmpOut.fn # "idle"
    /\ cmpOut' = [fn |-> "compare_grids.compare", out |-> GridsCompare(cmpCsharp, cmpRust)]
    /\ UNCHANGED <<FrozenStore, cmpCsharp, cmpRust>>

RunBatchCompare ==
    /\ cmpOut.fn # "idle"
    /\ cmpOut' = [fn |-> "batch_verify.compare",
                  out |-> BatchCompare(<<cmpCsharp>>, <<cmpRust>>)]
    /\ UNCHANGED <<FrozenStore, cmpCsharp, cmpRust>>

RunCompareOutputs ==
    /\ cmpOut.fn # "idle"
    /\ cmpOut' = [fn |-> "verification_status.compare_outputs",
                  out |-> CompareOutputs(<<cmpCsharp>>, <<cmpRust>>)]
    /\ UNCHANGED <<FrozenStore, cmpCsharp, cmpRust>>

\* ---------------------------------------------------------- specifications
\* 1x1x1 grids: what the engines dump in the specification of the commands.
UnitArtifacts ==
    {a \in Artifacts : a.dimensions = <<1, 1, 1>> /\ Len(a.state) = 1}

\* One-row grids whose state has the declared length or is one cell short:
\* what the engines dump in the specification of one batch run.
RowArtifacts ==
    {a \in Artifacts : /\ a.dimensions[2] = 1
                       /\ a.dimensions[3] = 1
                       /\ Len(a.state) \in {a.dimensions[1] - 1, a.dimensions[1]}}

BatchIdle ==
    /\ pc = "idle"
    /\ to_verify = <<>>
    /\ regenerate = FALSE
    /\ results = <<>>
    /\ verified = 0
    /\ failed = 0
    /\ task = 0
    /\ calls = <<>>
    /\ status = EmptyStatus
    /\ k = 0
    /\ verifyOut = Printed("", "", 0)

CompareIdle ==
    /\ cmpCsharp = <<>>
    /\ cmpRust = <<>>
    /\ cmpOut = [fn |-> "idle"]

\* A fresh checkout: no artifact and no ledger file yet.
Init ==
    /\ all_models = <<[name |-> "Basic", is_3d |-> FALSE]>>
    /\ engineRange = UnitArtifacts
    /\ seed \in Seeds
    /\ csharpDir = [m \in ModelNames |-> <<>>]
    /\ rustDir = [m \in ModelNames |-> <<>>]
    /\ statusFile = <<>>
    /\ BatchIdle
    /\ CompareIdle

\* Any sequence of batch_verify.py and verification_status.py verify commands,
\* one at a time.
Next ==
    \/ \E args \in BatchArgs : BatchStart(args)
    \/ VerifyModelBegin
    \/ GenerateCsharp
    \/ GenerateRust
    \/ Compare
    \/ UpdateLoad
    \/ UpdateMerge
    \/ UpdateSave
    \/ Report
    \/ \E m \in Models, o \in EngineOutcomes(engineRange), now \in 1..MaxStamp :
          CmdVerify(m, o, now)
    \/ VerifyExit

Spec == Init /\ [][Next]_vars

\* A batch run of one model, entering verify_model over stores that hold any
\* artifacts, with or without --regenerate.
InitTask ==
    /\ all_models = <<[name |-> "Basic", is_3d |-> FALSE]>>
    /\ engineRange = RowArtifacts
    /\ seed = DefaultSeed
    /\ \E c, r \in [Models -> {<<>>} \cup {<<a>> : a \in RowArtifacts}] :
         /\ csharpDir = [m \in ModelNames |-> IF m \in Models THEN c[m] ELSE <<>>]
         /\ rustDir = [m \in ModelNames |-> IF m \in Models THEN r[m] ELSE <<>>]
    /\ statusFile = <<>>
    /\ pc = "verify_model"
    /\ to_verify = <<"Basic">>
    /\ regenerate \in BOOLEAN
    /\ results = <<>>
    /\ verified = 0
    /\ failed = 0
    /\ task = 1
    /\ calls = <<>>
    /\ status = EmptyStatus
    /\ k = 0
    /\ verifyOut = Printed("", "", 0)
    /\ CompareIdle

NextTaskStep ==
    \/ VerifyModelBegin
    \/ GenerateCsharp
    \/ GenerateRust
    \/ Compare
    \/ UpdateLoad
    \/ UpdateMerge
    \/ UpdateSave

SpecTask == InitTask /\ [][NextTaskStep]_vars

\* The comparators applied to every pair of artifacts.
InitCompare ==
    /\ all_models = <<>>
    /\ engineRange = {}
    /\ seed = DefaultSeed
    /\ csharpDir = [m \in ModelNames |-> <<>>]
    /\ rustDir = [m \in ModelNames |-> <<>>]
    /\ statusFile = <<>>
    /\ BatchIdle
    /\ cmpCsharp \in Artifacts
    /\ cmpRust \in Artifacts
    /\ cmpOut = [fn |-> ""]

NextCompare ==
    \/ RunGridsCompare
    \/ RunBatchCompare
    \/ RunCompareOutputs

SpecCompare == InitCompare /\ [][NextCompare]_vars

\* get_all_models(): the catalogs models.xml can hold, each name once.
Catalogs ==
    {c \in UNION {[1..n -> [name : ModelNames, is_3d : BOOLEAN]] : n \in 0..MaxCatalog} :
        \A i, j \in 1..Len(c) : i # j => c[i].name # c[j].name}

\* One batch_verify.py run over any catalog, on a machine whose engines
\* leave no file (they fail, or dump elsewhere), over stores that are empty
\* or hold the same one-cell grid for every model.
InitTargets ==
    /\ all_models \in Catalogs
    /\ engineRange = {}
    /\ seed = DefaultSeed
    /\ \E slot \in {<<>>, <<[dimensions |-> <<1, 1, 1>>, state |-> <<0>>]>>} :
         /\ csharpDir = [m \in ModelNames |-> slot]
         /\ rustDir = [m \in ModelNames |-> slot]
    /\ statusFile = <<>>
    /\ BatchIdle
    /\ CompareIdle

NextTargets ==
    \/ \E args \in BatchArgs : BatchStart(args)
    \/ VerifyModelBegin
    \/ GenerateCsharp
    \/ GenerateRust
    \/ Compare
    \/ UpdateLoad
    \/ UpdateMerge
    \/ UpdateSave

SpecTargets == InitTargets /\ [][NextTargets]_vars

\* What a file of the stores can hold besides a grid: text that is not JSON,
\* and JSON objects without "dimensions" or without "state".
FileSlots ==
    {<<>>, <<[dimensions |-> <<1, 1, 1>>, state |-> <<0>>]>>, <<NotJson>>,
     <<[state |-> <<0>>]>>, <<[dimensions |-> <<1, 1, 1>>]>>}

\* A batch run of two models entering its first task, over stores whose files
\* hold anything.
InitFiles ==
    /\ all_models = <<[name |-> "Basic", is_3d |-> FALSE], [name |-> "Growth", is_3d |-> FALSE]>>
    /\ engineRange = {[dimensions |-> <<1, 1, 1>>, state |-> <<0>>]}
    /\ seed = DefaultSeed
    /\ \E c, r \in [Models -> FileSlots] :
         /\ csharpDir = [m \in ModelNames |-> IF m \in Models THEN c[m] ELSE <<>>]
         /\ rustDir = [m \in ModelNames |-> IF m \in Models THEN r[m] ELSE <<>>]
    /\ statusFile = <<>>
    /\ pc = "verify_model"
    /\ to_verify = <<"Basic", "Growth">>
    /\ regenerate \in BOOLEAN
    /\ results = <<>>
    /\ verified = 0
    /\ failed = 0
    /\ task = 1
    /\ calls = <<>>
    /\ status = EmptyStatus
    /\ k = 0
    /\ verifyOut = Printed("", "", 0)
    /\ CompareIdle

NextFiles ==
    \/ VerifyModelBegin
    \/ GenerateCsharp
    \/ GenerateRust
    \/ Compare
    \/ BatchAbort
    \/ UpdateLoad
    \/ UpdateMerge
    \/ UpdateSave

SpecFiles == InitFiles /\ [][NextFiles]_vars

\* The grid state files the engines dump in full: with the palette, the model
\* name and the seed next to the grid.
Labelled ==
    {a \in [dimensions : Dimensions, state : States, characters : {"BW", "BWR"},
            model : {"Basic", "Growth"}, seed : Seeds] :
        [dimensions |-> a.dimensions, state |-> a.state] \in RowArtifacts}

\* The comparators applied to every pair of such files.
InitLabels ==
    /\ all_models = <<>>
    /\ engineRange = {}
    /\ seed = DefaultSeed
    /\ csharpDir = [m \in ModelNames |-> <<>>]
    /\ rustDir = [m \in ModelNames |-> <<>>]
    /\ statusFile = <<>>
    /\ BatchIdle
    /\ cmpCsharp \in Labelled
    /\ cmpRust \in Labelled
    /\ cmpOut = [fn |-> ""]

SpecLabels == InitLabels /\ [][NextCompare]_vars

\* A batch run of one model entering its task, and one cmd_verify run by
\* another process at any time between the read and the write of the ledger
\* file by update_status.
InitOverlap ==
    /\ all_models = <<[name |-> "Basic", is_3d |-> FALSE], [name |-> "Growth", is_3d |-> FALSE]>>
    /\ engineRange = UnitArtifacts
    /\ seed = DefaultSeed
    /\ \E c, r \in [Models -> {<<>>} \cup {<<a>> : a \in UnitArtifacts}] :
         /\ csharpDir = [m \in ModelNames |-> IF m \in Models THEN c[m] ELSE <<>>]
         /\ rustDir = [m \in ModelNames |-> IF m \in Models THEN r[m] ELSE <<>>]
    /\ statusFile = <<>>
    /\ pc = "verify_model"
    /\ to_verify = <<"Basic">>
    /\ regenerate = FALSE
    /\ results = <<>>
    /\ verified = 0
    /\ failed = 0
    /\ task = 1
    /\ calls = <<>>
    /\ status = EmptyStatus
    /\ k = 0
    /\ verifyOut = Printed("", "", 0)
    /\ CompareIdle

NextOverlap ==
    \/ VerifyModelBegin
    \/ GenerateCsharp
    \/ GenerateRust
    \/ Compare
    \/ UpdateLoad
    \/ UpdateMerge
    \/ UpdateSave
    \/ \E m \in Models, o \in EngineOutcomes(engineRange), now \in 1..MaxStamp :
          OverlapVerify(m, o, now)

SpecOverlap == InitOverlap /\ [][NextOverlap]_vars

\* Ledger files left by earlier runs: any of the two models of the catalog
\* verified, failed or both, WaveFlowers skipped or not.
Ledgers ==
    {[verified |-> [m \in v |-> [seed |-> DefaultSeed, accuracy |-> Hundred]],
      failed   |-> [m \in f |-> [seed |-> DefaultSeed, accuracy |-> Zero,
                                 reason |-> Message("Length mismatch", <<1, 0>>)]],
      skipped  |-> [m \in w |-> [reason |-> "unsupported"]]] :
        v \in SUBSET {"Basic", "Growth"}, f \in SUBSET {"Basic", "Growth"},
        w \in SUBSET {"WaveFlowers"}}

\* A batch run of one model entering its task, over any such ledger file.
InitMerge ==
    /\ all_models = <<[name |-> "Basic", is_3d |-> FALSE], [name |-> "Growth", is_3d |-> FALSE]>>
    /\ engineRange = UnitArtifacts
    /\ seed = DefaultSeed
    /\ \E c, r \in {<<>>} \cup {<<a>> : a \in UnitArtifacts} :
         /\ csharpDir = [m \in ModelNames |-> IF m = "Basic" THEN c ELSE <<>>]
         /\ rustDir = [m \in ModelNames |-> IF m = "Basic" THEN r ELSE <<>>]
    /\ statusFile \in {<<>>} \cup {<<l>> : l \in Ledgers}
    /\ pc = "verify_model"
    /\ to_verify = <<"Basic">>
    /\ regenerate \in BOOLEAN
    /\ results = <<>>
    /\ verified = 0
    /\ failed = 0
    /\ task = 1
    /\ calls = <<>>
    /\ status = EmptyStatus
    /\ k = 0
    /\ verifyOut = Printed("", "", 0)
    /\ CompareIdle

SpecMerge == InitMerge /\ [][NextTaskStep]_vars

\* Any sequence of the batch, verify and status commands, one at a time.
NextStatus ==
    \/ Next
    \/ CmdStatus
    \/ StatusExit

SpecStatus == Init /\ [][NextStatus]_vars

\* A state of n cells, all 0 but cell i (none when i = 0).
OneHot(n, i) == [j \in 1..n |-> IF j = i THEN 1 ELSE 0]

\* compare_grids.compare applied to two grids of every extent up to MaxAxis,
\* one entry per cell, that differ in exactly one cell.
InitIndex ==
    /\ all_models = <<>>
    /\ engineRange = {}
    /\ seed = DefaultSeed
    /\ csharpDir = [m \in ModelNames |-> <<>>]
    /\ rustDir = [m \in ModelNames |-> <<>>]
    /\ statusFile = <<>>
    /\ BatchIdle
    /\ \E d \in (1..MaxAxis) \X (1..MaxAxis) \X (1..MaxAxis) :
         \E i \in 1..(d[1] * d[2] * d[3]) :
            /\ cmpCsharp = [dimensions |-> d, state |-> OneHot(d[1] * d[2] * d[3], 0)]
            /\ cmpRust = [dimensions |-> d, state |-> OneHot(d[1] * d[2] * d[3], i)]
    /\ cmpOut = [fn |-> ""]

NextIndex == RunGridsCompare

SpecIndex == InitIndex /\ [][NextIndex]_vars

\* ------------------------------------------------------------ the ledger
\* The models a ledger holds in both its verified and its failed mapping.
Overlap(st) == DOMAIN st.verified \cap DOMAIN st.failed

\* The step merges result results[k] into the dict of update_status.
Merging == pc = "update_status_merge" /\ k <= Len(results)

\* The step is a cmd_verify call that got as far as saving the ledger.
Saving(line) ==
    /\ pc = "idle"
    /\ pc' = "cmd_verify_exit"
    /\ verifyOut'.line = line

\* C1, as stated: after any sequence of record operations no model is a key
\* of both the verified and the failed mapping, in the ledger file and in the
\* dict update_status merges into.
C1_NeverInBoth == Overlap(LoadStatus) = {} /\ Overlap(status) = {}

\* C1, amended: a model comes to be in both mappings only by the recording of
\* a Failed outcome for it; every other step keeps the models that are in both
\* among those that already were, in the file or in the dict being merged.
C1_InBothOnlyByFailure ==
    [][/\ Overlap(status') \subseteq
            Overlap(status) \cup Overlap(LoadStatus) \cup
            {m \in ModelNames : /\ Merging
                                /\ results[k].name = m
                                /\ results[k].status = "failed"}
       /\ Overlap(LoadStatus') \subseteq
            Overlap(LoadStatus) \cup Overlap(status) \cup
            {m \in ModelNames : Saving("FAILED") /\ verifyOut'.name = m}]_vars

\* C1 witness: the ledger file holds a model in both mappings.
C1_Witness == Overlap(LoadStatus) # {}

\* C2: the step that records a Verified outcome for M leaves M a key of
\* verified and not a key of failed, on the batch path (one turn of the loop
\* of update_status) and on the cmd_verify path.
C2_VerifiedNotFailed ==
    [][/\ (Merging /\ results[k].status = "verified") =>
            /\ results[k].name \in DOMAIN status'.verified
            /\ results[k].name \notin DOMAIN status'.failed
       /\ Saving("PASSED") =>
            /\ verifyOut'.name \in DOMAIN LoadStatus'.verified
            /\ verifyOut'.name \notin DOMAIN LoadStatus'.failed]_vars

\* C2 witness: update_status has merged a Verified result for a model the
\* ledger file still lists as failed, and its dict no longer does.
C2_Witness ==
    /\ pc = "update_status_merge"
    /\ k = 2
    /\ results[1].status = "verified"
    /\ results[1].name \in DOMAIN LoadStatus.failed
    /\ results[1].name \in DOMAIN status.verified
    /\ results[1].name \notin DOMAIN status.failed

\* Entry M of mapping after is what it was in mapping before.
SameEntry(before, after, m) ==
    /\ m \in DOMAIN after <=> m \in DOMAIN before
    /\ m \in DOMAIN before => after[m] = before[m]

\* C3: the step that records a Failed outcome for M sets failed[M] to the
\* seed, accuracy and reason of the outcome and leaves verified[M] as it was,
\* on both paths.
C3_FailedKeepsVerified ==
    [][/\ (Merging /\ results[k].status = "failed") =>
            LET r == results[k]
            IN  /\ r.name \in DOMAIN status'.failed
                /\ status'.failed[r.name] =
                     [seed |-> r.seed, accuracy |-> r.accuracy, reason |-> r.message]
                /\ SameEntry(status.verified, status'.verified, r.name)
       /\ Saving("FAILED") =>
            LET m == verifyOut'.name
                c == CompareOutputs(csharpDir'[m], rustDir'[m])
            IN  /\ m \in DOMAIN LoadStatus'.failed
                /\ LoadStatus'.failed[m] =
                     [seed |-> seed, accuracy |-> c.accuracy, reason |-> c.details]
                /\ SameEntry(LoadStatus.verified, LoadStatus'.verified, m)]_vars

\* C3 witness: update_status has merged a Failed result for a model that is
\* verified in the ledger, and the model is still verified.
C3_Witness ==
    /\ pc = "update_status_merge"
    /\ k = 2
    /\ results[1].status = "failed"
    /\ results[1].name \in DOMAIN LoadStatus.verified
    /\ results[1].name \in DOMAIN status.verified
    /\ results[1].name \in DOMAIN status.failed

\* C4, as stated: recording a Verified outcome over a ledger that already
\* holds just that outcome for the model (same seed and accuracy, recorded on
\* the same path, the model not failed) leaves the ledger as it was.
C4_RecordTwiceSame ==
    [][/\ (/\ Merging
           /\ results[k].status = "verified"
           /\ results[k].name \in DOMAIN status.verified
           /\ status.verified[results[k].name] =
                [seed |-> results[k].seed, accuracy |-> results[k].accuracy]
           /\ results[k].name \notin DOMAIN status.failed)
          => status' = status
       /\ (/\ Saving("PASSED")
           /\ verifyOut'.name \in DOMAIN LoadStatus.verified
           /\ "verified_at" \in DOMAIN LoadStatus.verified[verifyOut'.name]
           /\ LoadStatus.verified[verifyOut'.name].seed = seed
           /\ LoadStatus.verified[verifyOut'.name].accuracy = Hundred
           /\ verifyOut'.name \notin DOMAIN LoadStatus.failed)
          => statusFile' = statusFile]_vars

\* The results of generation failures.
GenerationFailed(r) == r.status \in {"csharp_failed", "rust_failed"}

\* C5, as stated: at the end of a batch run every model whose generation
\* failed is in the failed mapping of the ledger file with the reason of the
\* failure, and its result carries no comparison.
C5_GenerationFailureRecorded ==
    pc = "report" =>
        \A j \in 1..Len(results) :
            GenerationFailed(results[j]) =>
                /\ "accuracy" \notin DOMAIN results[j]
                /\ results[j].name \in DOMAIN LoadStatus.failed
                /\ LoadStatus.failed[results[j].name].reason = results[j].message

\* ------------------------------------------------------- the batch task
\* The step calls generate_csharp, generate_rust.
CallingCsharp == pc = "generate_csharp"

CallingRust == pc = "generate_rust"

\* The subprocess.run calls the step adds to calls.
NewCalls == {calls'[j].engine : j \in (Len(calls) + 1)..Len(calls')}

\* C6: a task whose reference adapter fails ends in that step with the result
\* "C# generation failed" and without any call of the candidate engine; the
\* candidate engine is invoked only by the step that calls generate_rust, and
\* a task reaches that step only from a generate_csharp that returned true
\* (the reference file was there, or the engine signalled its dump).
C6_ReferenceFailureShortCircuits ==
    [][/\ (CallingCsharp /\ pc' # "generate_rust") =>
            /\ results' = Append(results, [name |-> to_verify[task], seed |-> seed,
                                           status |-> "csharp_failed",
                                           message |-> Message("C# generation failed", <<>>)])
            /\ \A j \in 1..Len(calls') : calls'[j].engine # "rust"
       /\ "rust" \in NewCalls => CallingRust
       /\ (pc' = "generate_rust") =>
            /\ CallingCsharp
            /\ \/ csharpDir[to_verify[task]] # <<>>
               \/ /\ calls' # <<>>
                  /\ calls'[Len(calls')] = [engine |-> "csharp", signal |-> "dumped"]]_vars

\* C6 witness: a task has just ended on a failed reference generation, the
\* C# engine having been run and the Rust engine not.
C6_Witness ==
    /\ pc \in {"verify_model", "update_status"}
    /\ results # <<>>
    /\ results[Len(results)].status = "csharp_failed"
    /\ Len(calls) = 1
    /\ calls[1].engine = "csharp"

\* The number of positions up to n at which cs and rs hold the same value.
RECURSIVE CountEqual(_, _, _)
CountEqual(cs, rs, n) ==
    IF n = 0 THEN 0
    ELSE CountEqual(cs, rs, n - 1) + (IF cs[n] = rs[n] THEN 1 ELSE 0)

\* The two file slots hold artifacts of equal dimensions and state lengths.
Comparable(cf, rf) ==
    /\ cf # <<>>
    /\ rf # <<>>
    /\ cf[1].dimensions = rf[1].dimensions
    /\ Len(cf[1].state) = Len(rf[1].state)

\* C7, as stated: the step that compares, both adapters having succeeded and
\* both artifacts being there, gives Verified exactly when every cell is equal (dimensions and lengths
\* matching, accuracy 100.0), and in every other case Failed with a reason
\* that reports the accuracy and N = total cells - matching cells.
C7_ReasonAlwaysCounts ==
    [][(/\ pc = "compare"
        /\ csharpDir[to_verify[task]] # <<>>
        /\ rustDir[to_verify[task]] # <<>>) =>
        LET cf == csharpDir[to_verify[task]]
            rf == rustDir[to_verify[task]]
            r == results'[Len(results')]
            total == Len(cf[1].state)
            matching == CountEqual(cf[1].state, rf[1].state, total)
        IN  /\ r.status = "verified" <=>
                 (Comparable(cf, rf) /\ matching = total /\ r.accuracy = Hundred)
            /\ r.status # "verified" =>
                 /\ r.status = "failed"
                 /\ Comparable(cf, rf)
                 /\ r.accuracy = Percent(matching, total)
                 /\ r.message = Message("differ", <<Fmt2(matching, total), total - matching>>)]_vars

\* C7, amended: Verified exactly when both files are there with equal
\* dimensions, equal lengths and every cell equal, and then with accuracy
\* 100.0; in every other case Failed: with the accuracy below 100.0 and a
\* reason that reports it and N = total - matching when dimensions and lengths
\* match, and with accuracy 0.0 and a reason that names the missing reference
\* file, the dimension mismatch or the length mismatch when they do not.
C7_VerifiedIffAllEqual ==
    [][pc = "compare" =>
        LET cf == csharpDir[to_verify[task]]
            rf == rustDir[to_verify[task]]
            r == results'[Len(results')]
            total == Len(cf[1].state)
            matching == CountEqual(cf[1].state, rf[1].state, total)
        IN  /\ r.status = "verified" <=> (Comparable(cf, rf) /\ matching = total)
            /\ r.status = "verified" => r.accuracy = Hundred
            /\ r.status # "verified" =>
                 /\ r.status = "failed"
                 /\ IF Comparable(cf, rf)
                    THEN /\ r.accuracy = Percent(matching, total)
                         /\ r.accuracy # Hundred
                         /\ r.message = Message("differ", <<Fmt2(matching, total),
                                                            total - matching>>)
                    ELSE /\ r.accuracy = Zero
                         /\ r.message.kind \in
                              {"No C# reference", "Dim mismatch", "Length mismatch"}]_vars

\* C7 witness: a task ended Failed on a comparison that found one of two
\* cells different: accuracy 50.0, reason "50.00% (1 differ)".
C7_Witness ==
    /\ results # <<>>
    /\ results[Len(results)].status = "failed"
    /\ results[Len(results)].accuracy = Float(50, 1)
    /\ results[Len(results)].message = Message("differ", <<5000, 1>>)

\* ------------------------------------------------------- the comparators
SameDimensions == cmpCsharp.dimensions = cmpRust.dimensions

Called(fn) == cmpOut.fn = fn

\* C8: on artifacts of equal dimensions and identical state sequences,
\* compare_grids.compare returns accuracy 100.0, no differences and
\* matching_cells = total_cells, and batch_verify.compare returns a match
\* with accuracy 100.0.
C8_IdenticalIsPerfect ==
    (SameDimensions /\ cmpCsharp.state = cmpRust.state) =>
        /\ Called("compare_grids.compare") =>
             /\ cmpOut.out.raised = ""
             /\ "accuracy" \in DOMAIN cmpOut.out.result
             /\ cmpOut.out.result.accuracy = Hundred
             /\ cmpOut.out.result.differences = <<>>
             /\ cmpOut.out.result.matching_cells = cmpOut.out.result.total_cells
        /\ Called("batch_verify.compare") =>
             /\ cmpOut.out.is_match
             /\ cmpOut.out.accuracy = Hundred

\* C8 witness: compare_grids.compare has run on two identical artifacts with
\* cells.
C8_Witness ==
    /\ Called("compare_grids.compare")
    /\ SameDimensions
    /\ cmpCsharp.state = cmpRust.state
    /\ Len(cmpCsharp.state) > 1
    /\ cmpOut.out.result.matching_cells = Len(cmpCsharp.state)

\* C9, as stated: on artifacts of matching dimensions and empty state
\* sequences each of the three comparators returns accuracy 100.0 and none
\* raises.
C9_EmptyIsPerfect ==
    (SameDimensions /\ Len(cmpCsharp.state) = 0 /\ Len(cmpRust.state) = 0) =>
        /\ Called("compare_grids.compare") =>
             /\ cmpOut.out.raised = ""
             /\ "accuracy" \in DOMAIN cmpOut.out.result
             /\ cmpOut.out.result.accuracy = Hundred
        /\ Called("batch_verify.compare") => cmpOut.out.accuracy = Hundred
        /\ Called("verification_status.compare_outputs") =>
             /\ cmpOut.out.raised = ""
             /\ cmpOut.out.accuracy = Hundred

\* C10, as stated: on artifacts of different dimensions compare returns a
\* result with dimensions_match false, accuracy 0.0 and no differences
\* (batch_verify.compare: no match, accuracy 0.0).
C10_MismatchIsZero ==
    ~SameDimensions =>
        /\ Called("compare_grids.compare") =>
             /\ cmpOut.out.raised = ""
             /\ ~cmpOut.out.result.dimensions_match
             /\ cmpOut.out.result.differences = <<>>
             /\ "accuracy" \in DOMAIN cmpOut.out.result
             /\ cmpOut.out.result.accuracy = Zero
        /\ Called("batch_verify.compare") =>
             /\ ~cmpOut.out.is_match
             /\ cmpOut.out.accuracy = Zero

\* C11, as stated: on artifacts of equal dimensions whose state sequences
\* differ in length, each comparator returns a flagged failure: no match,
\* accuracy 0.0 and (compare_grids.compare) no differences, never an accuracy
\* computed over the common prefix.
C11_LengthMismatchIsZero ==
    (SameDimensions /\ Len(cmpCsharp.state) # Len(cmpRust.state)) =>
        /\ Called("compare_grids.compare") =>
             /\ cmpOut.out.raised = ""
             /\ cmpOut.out.result.differences = <<>>
             /\ "accuracy" \in DOMAIN cmpOut.out.result
             /\ cmpOut.out.result.accuracy = Zero
             /\ ~cmpOut.out.result.is_perfect
        /\ Called("batch_verify.compare") =>
             /\ ~cmpOut.out.is_match
             /\ cmpOut.out.accuracy = Zero
        /\ Called("verification_status.compare_outputs") =>
             /\ cmpOut.out.raised = ""
             /\ ~cmpOut.out.is_match
             /\ cmpOut.out.accuracy = Zero

\* The cells of the C# grid.
Volume == cmpCsharp.dimensions[1] * cmpCsharp.dimensions[2] * cmpCsharp.dimensions[3]

\* C12: on a grid of positive extents mx, my, mz with one state entry per
\* cell, every entry of differences carries the index of a differing cell,
\* 0 <= index < mx*my*mz, with coordinates 0 <= x < mx, 0 <= y < my,
\* 0 <= z < mz such that x + y*mx + z*mx*my = index; and every differing cell
\* has its entry.
C12_IndexRoundTrip ==
    (/\ Called("compare_grids.compare")
     /\ SameDimensions
     /\ \A a \in 1..3 : cmpCsharp.dimensions[a] > 0
     /\ Len(cmpCsharp.state) = Volume
     /\ Len(cmpRust.state) = Volume) =>
        LET mx == cmpCsharp.dimensions[1]
            my == cmpCsharp.dimensions[2]
            mz == cmpCsharp.dimensions[3]
            ds == cmpOut.out.result.differences
        IN  /\ cmpOut.out.raised = ""
            /\ \A j \in 1..Len(ds) :
                 /\ 0 <= ds[j].index /\ ds[j].index < mx * my * mz
                 /\ cmpCsharp.state[ds[j].index + 1] # cmpRust.state[ds[j].index + 1]
                 /\ 0 <= ds[j].x /\ ds[j].x < mx
                 /\ 0 <= ds[j].y /\ ds[j].y < my
                 /\ 0 <= ds[j].z /\ ds[j].z < mz
                 /\ ds[j].x + ds[j].y * mx + ds[j].z * mx * my = ds[j].index
            /\ {ds[j].index + 1 : j \in 1..Len(ds)} =
                 {i \in 1..Volume : cmpCsharp.state[i] # cmpRust.state[i]}

\* C12 witness: compare has decoded the index of a differing cell that lies
\* off every axis of a grid whose three extents differ.
C12_Witness ==
    /\ Called("compare_grids.compare")
    /\ cmpCsharp.dimensions = <<2, 3, 1>> \/ cmpCsharp.dimensions = <<3, 2, 2>>
    /\ Len(cmpOut.out.result.differences) = 1
    /\ cmpOut.out.result.differences[1].x > 0
    /\ cmpOut.out.result.differences[1].y > 0
    /\ cmpOut.out.result.differences[1].x + cmpOut.out.result.differences[1].y * cmpCsharp.dimensions[1]
         + cmpOut.out.result.differences[1].z * cmpCsharp.dimensions[1] * cmpCsharp.dimensions[2]
         = cmpOut.out.result.differences[1].index

\* ------------------------------------------------------------ the adapters
\* C13: an adapter called while its artifact is in the store returns true
\* without running its engine and leaves the store as it is, and without
\* --regenerate no step of a task deletes or rewrites an artifact that is in
\* the store.
C13_CachedArtifactKept ==
    [][/\ (CallingCsharp /\ csharpDir[to_verify[task]] # <<>>) =>
            /\ calls' = calls
            /\ UNCHANGED storeVars
            /\ pc' = "generate_rust"
       /\ (CallingRust /\ rustDir[to_verify[task]] # <<>>) =>
            /\ calls' = calls
            /\ UNCHANGED storeVars
            /\ pc' = "compare"
       /\ ~regenerate =>
            \A m \in ModelNames :
                /\ csharpDir[m] # <<>> => csharpDir'[m] = csharpDir[m]
                /\ rustDir[m] # <<>> => rustDir'[m] = rustDir[m]]_vars

\* C13 witness: without --regenerate both adapters have returned true over
\* artifacts that were in the store, and no engine has been run.
C13_Witness ==
    /\ pc = "compare"
    /\ ~regenerate
    /\ calls = <<>>
    /\ csharpDir[to_verify[task]] # <<>>
    /\ rustDir[to_verify[task]] # <<>>

\* The step ran an engine whose process completed (no timeout, no error of
\* subprocess.run).
Completed ==
    /\ Len(calls') = Len(calls) + 1
    /\ calls'[Len(calls')].signal \in {"dumped", "quiet"}

\* C14, as stated: once the engine process has completed, the adapter returns
\* true exactly when the artifact of (model, seed) is in the store, whatever
\* the process printed; for generate_csharp and for generate_rust.
C14_SuccessIffArtifact ==
    [][/\ (CallingCsharp /\ Completed) =>
            (pc' = "generate_rust" <=> csharpDir'[to_verify[task]] # <<>>)
       /\ (CallingRust /\ Completed) =>
            (pc' = "compare" <=> rustDir'[to_verify[task]] # <<>>)]_vars

\* The step ran an engine that exceeded the timeout of subprocess.run.
TimedOut ==
    /\ Len(calls') = Len(calls) + 1
    /\ calls'[Len(calls')].signal = "timeout"

\* The subprocess.run calls of engine in log.
CallsOf(log, engine) == {j \in 1..Len(log) : log[j].engine = engine}

\* C15, as stated: an adapter whose engine times out returns false to its
\* caller (the batch task ends with the generation failure of that adapter,
\* cmd_verify prints that it could not generate the reference and returns)
\* and the engine has been run once, not again.
C15_TimeoutIsFailure ==
    [][/\ (CallingCsharp /\ TimedOut) =>
            /\ results' = Append(results, [name |-> to_verify[task], seed |-> seed,
                                           status |-> "csharp_failed",
                                           message |-> Message("C# generation failed", <<>>)])
            /\ Cardinality(CallsOf(calls', "csharp")) = 1
       /\ (CallingRust /\ TimedOut) =>
            /\ results' = Append(results, [name |-> to_verify[task], seed |-> seed,
                                           status |-> "rust_failed",
                                           message |-> Message("Rust generation failed", <<>>)])
            /\ Cardinality(CallsOf(calls', "rust")) = 1
       /\ (pc = "idle" /\ pc' = "cmd_verify_exit" /\ TimedOut) =>
            /\ verifyOut'.line = "FAILED: Could not generate C# reference"
            /\ verifyOut'.exit = 0
            /\ Cardinality(CallsOf(calls', "csharp")) = 1]_vars

\* C16: with --regenerate a task begins by removing both artifacts of the
\* model (present or not) before any engine runs; the reference adapter then
\* runs the C# engine and, if it returns true, the candidate adapter runs the
\* Rust engine; after the removal an artifact of the model changes only in the
\* step that runs its engine, so the comparison is reached with both engines
\* run in this task, C# first, and reads no file from before the task.
C16_RegenerateComparesFresh ==
    [][regenerate =>
        /\ pc = "verify_model" =>
             /\ csharpDir'[to_verify[task]] = <<>>
             /\ rustDir'[to_verify[task]] = <<>>
             /\ calls' = <<>>
             /\ pc' = "generate_csharp"
        /\ CallingCsharp => NewCalls = {"csharp"}
        /\ CallingRust => NewCalls = {"rust"}
        /\ (pc # "verify_model" /\ task > 0) =>
             /\ csharpDir'[to_verify[task]] # csharpDir[to_verify[task]] => CallingCsharp
             /\ rustDir'[to_verify[task]] # rustDir[to_verify[task]] => CallingRust
        /\ pc = "compare" =>
             /\ Len(calls) = 2
             /\ calls[1].engine = "csharp"
             /\ calls[2].engine = "rust"]_vars

\* C16 witness: a task with --regenerate has reached the comparison with both
\* artifacts in the store, each engine having been run once.
C16_Witness ==
    /\ pc = "compare"
    /\ regenerate
    /\ csharpDir[to_verify[task]] # <<>>
    /\ rustDir[to_verify[task]] # <<>>
    /\ Len(calls) = 2

\* ------------------------------------------------------ target resolution
\* The names a list holds.
Elems(names) == {names[j] : j \in 1..Len(names)}

\* The target modes a command line selects.
Modes(args) ==
    (IF args.models # <<>> THEN 1 ELSE 0) + (IF args.all THEN 1 ELSE 0)
        + (IF args.all_2d THEN 1 ELSE 0)

\* C17, as stated: a batch run given explicit model names verifies exactly
\* those names, whatever --all and --all-2d say; given none and --all-2d, the
\* 2D models outside the skip list, whatever --all says.
C17_ExplicitFirst ==
    [][\A args \in BatchArgs :
        BatchStart(args) =>
            /\ args.models # <<>> => Elems(to_verify') = Elems(args.models)
            /\ (args.models = <<>> /\ args.all_2d) =>
                 Elems(to_verify') = Elems(Names(models_2d))]_vars

\* C18, as stated: a command line that selects more than one of explicit
\* names, --all and --all-2d starts no batch run: no task, no engine, no
\* write of the ledger.
C18_MixedModesRejected ==
    [][\A args \in BatchArgs : Modes(args) > 1 => ~BatchStart(args)]_vars

\* C19: --all and --all-2d schedule no model of the skip list, --all one task
\* for each model of the catalog outside it, in catalog order, --all-2d those
\* of them that are 2D; names given alone are scheduled as they are, skip
\* list or not; and when the loop over to_verify ends, one task has run for
\* each scheduled name, in order.
C19_SkipOnlyWhenSweeping ==
    [][/\ \A args \in BatchArgs :
            BatchStart(args) =>
                /\ (args.all \/ args.all_2d) => Elems(to_verify') \cap SKIP_MODELS = {}
                /\ args.all =>
                     /\ Elems(to_verify') = Models \ SKIP_MODELS
                     /\ Len(to_verify') = Cardinality(Models \ SKIP_MODELS)
                /\ (args.all_2d /\ ~args.all) =>
                     Elems(to_verify') =
                        {all_models[j].name : j \in {i \in 1..Len(all_models) :
                            ~all_models[i].is_3d}} \ SKIP_MODELS
                /\ (~args.all /\ ~args.all_2d) => to_verify' = args.models
       /\ pc' = "update_status" =>
            /\ Len(results') = Len(to_verify')
            /\ \A j \in 1..Len(results') : results'[j].name = to_verify'[j]]_vars

\* C19 witness: over a catalog of three models, one of them in the skip list,
\* a sweep has run its two tasks, one for each of the other models.
C19_Witness ==
    /\ pc = "update_status"
    /\ Len(all_models) = 3
    /\ Cardinality(Models \cap SKIP_MODELS) = 1
    /\ Len(results) = 2
    /\ {results[j].name : j \in 1..Len(results)} = Models \ SKIP_MODELS

\* C19 witness on the other side: a task has run for a model of the skip list
\* that was named on the command line.
C19_SkippedNamedRuns ==
    /\ pc = "update_status"
    /\ results # <<>>
    /\ results[1].name \in SKIP_MODELS
    /\ results[1].status = "verified"

\* ---------------------------------------------------------- the batch run
\* A batch run is under way.
BatchRunning == pc \notin {"idle", "cmd_verify_exit"}

\* C20: during a batch run the ledger file changes in one step only, the
\* save that ends update_status; update_status is entered, and the file read,
\* only when a result has been collected for every target and no task runs;
\* the loop over the results leaves the file alone; the save writes the merged
\* dict and is the only way to the end of the run, which writes nothing more.
C20_LedgerWrittenOnceAfterTasks ==
    [][/\ (BatchRunning /\ statusFile' # statusFile) =>
            /\ pc = "update_status_merge"
            /\ pc' = "report"
       /\ pc' = "update_status" =>
            /\ Len(results') = Len(to_verify')
            /\ task' = 0
       /\ pc = "update_status" =>
            /\ pc' = "update_status_merge"
            /\ status' = LoadStatus
            /\ Len(results) = Len(to_verify)
       /\ pc' = "update_status_merge" => pc \in {"update_status", "update_status_merge"}
       /\ pc' = "report" =>
            /\ pc = "update_status_merge"
            /\ k > Len(results)
            /\ Len(results) = Len(to_verify)
            /\ statusFile' = <<status>>
       /\ pc = "report" =>
            /\ pc' = "idle"
            /\ statusFile' = statusFile]_vars

\* C20 witness: a run of two tasks has saved the ledger, which now holds the
\* outcome merged from the results and did not before.
C20_Witness ==
    /\ pc = "report"
    /\ Len(results) = 2
    /\ results[2].status = "verified"
    /\ statusFile = <<status>>
    /\ results[2].name \in DOMAIN status.verified

\* The step ends a task of the batch run.
TaskEnds == task > 0 /\ task' # task

\* C21: each task of a batch run ends in one turn of the loop of main, which
\* appends one result (its status line) and adds one to exactly one of the
\* two counters; so the counters always sum to the number of models attempted
\* so far, and in the summary to the number of targets, whatever the outcomes.
C21_OneLineAndCountPerModel ==
    [][/\ TaskEnds =>
            /\ task' \in {task + 1, 0}
            /\ Len(results') = Len(results) + 1
            /\ results'[Len(results')].name = to_verify[task]
            /\ verified' + failed' = verified + failed + 1
       /\ (BatchRunning /\ pc # "report" /\ ~TaskEnds) =>
            UNCHANGED <<results, verified, failed>>
       /\ BatchRunning' =>
            /\ verified' + failed' = Len(results')
            /\ task' > 0 => Len(results') = task' - 1
       /\ pc' = "report" =>
            /\ verified' + failed' = Len(to_verify')
            /\ Len(results') = Len(to_verify')]_vars

\* C21 witness: the summary of a run of two models, one verified and one
\* whose generation failed: 1 verified, 1 failed out of 2.
C21_Witness ==
    /\ pc = "report"
    /\ Len(to_verify) = 2
    /\ verified = 1
    /\ failed = 1
    /\ \E j \in 1..2 : GenerationFailed(results[j])

\* The step is taken by a task of the batch run.
InTask == task > 0 /\ pc \in {"verify_model", "generate_csharp", "generate_rust", "compare"}

\* C22, as stated: whatever goes wrong in a task (engine error, timeout,
\* missing, unreadable or malformed artifact), each step of the task either
\* goes on with the task or ends it with one result for its model and moves
\* on to the next target, or to update_status after the last one.
C22_FailureConfined ==
    [][InTask =>
        \/ /\ task' = task
           /\ pc' \in {"generate_csharp", "generate_rust", "compare"}
           /\ results' = results
        \/ /\ Len(results') = Len(results) + 1
           /\ results'[Len(results')].name = to_verify[task]
           /\ IF task < Len(to_verify)
              THEN task' = task + 1 /\ pc' = "verify_model"
              ELSE task' = 0 /\ pc' = "update_status"]_vars

\* C23, as stated: a run schedules at most one task for a model (the seed is
\* that of the run, the engines are those of the task): the target list holds
\* no name twice, so no two of its results are for the same model.
C23_TaskOncePerRun ==
    /\ \A i, j \in 1..Len(to_verify) : i # j => to_verify[i] # to_verify[j]
    /\ \A i, j \in 1..Len(results) : i # j => results[i].name # results[j].name

\* ------------------------------------------------------------ cmd_verify
\* C24, as stated: cmd_verify exits 0 when it has completed a comparison,
\* passed or failed, and with a status other than 0 when it stopped because
\* the Rust output of (model, seed) is missing.
C24_ExitStatus ==
    pc = "cmd_verify_exit" =>
        /\ verifyOut.line \in {"PASSED", "FAILED"} => verifyOut.exit = 0
        /\ verifyOut.line = "Rust output not found" => verifyOut.exit # 0

\* ------------------------------------------------- the comparators, again
\* The dimensions and the state of a grid state file, nothing else.
Strip(a) == [dimensions |-> a.dimensions, state |-> a.state]

\* C25: on two files, each comparator returns what it returns on their
\* dimensions and states alone: compare_grids.compare the same
\* dimensions_match, matching_cells, accuracy and differences, the other two
\* the same match flag, accuracy and message; so files that differ in palette,
\* model or seed only are classified alike.
C25_LabelsDoNotMatter ==
    /\ Called("compare_grids.compare") =>
         LET q == GridsCompare(Strip(cmpCsharp), Strip(cmpRust))
         IN  /\ cmpOut.out.raised = q.raised
             /\ \A f \in {"dimensions_match", "matching_cells", "accuracy", "differences",
                         "is_perfect"} :
                  /\ f \in DOMAIN cmpOut.out.result <=> f \in DOMAIN q.result
                  /\ f \in DOMAIN q.result => cmpOut.out.result[f] = q.result[f]
    /\ Called("batch_verify.compare") =>
         cmpOut.out = BatchCompare(<<Strip(cmpCsharp)>>, <<Strip(cmpRust)>>)
    /\ Called("verification_status.compare_outputs") =>
         cmpOut.out = CompareOutputs(<<Strip(cmpCsharp)>>, <<Strip(cmpRust)>>)

\* C25 witness: batch_verify.compare has reported a match of two files of two
\* cells whose palettes, model names and seeds differ.
C25_Witness ==
    /\ Called("batch_verify.compare")
    /\ HasKey(cmpCsharp, "characters")
    /\ cmpCsharp.characters # cmpRust.characters
    /\ cmpCsharp.model # cmpRust.model
    /\ cmpCsharp.seed # cmpRust.seed
    /\ Len(cmpCsharp.state) = 2
    /\ cmpOut.out.is_match

\* --------------------------------------------------------- overlapping runs
\* The models a ledger has an entry of.
Recorded(st) == DOMAIN st.verified \cup DOMAIN st.failed

\* C26: update_status holds no lock and does not read the file again: what it
\* writes is the dict it read at its start with its own results merged in,
\* whatever another run wrote to the file in between; so a record written by
\* a run that overlaps it can be missing from the ledger afterwards (the state
\* C26_LostUpdate is reached).
C26_LastWriterWins ==
    [][/\ (pc = "update_status_merge" /\ pc' = "report") => statusFile' = <<status>>
       /\ (pc = "update_status_merge" /\ k' = k + 1) => status' = Record(status, results[k])
       /\ (pc = "update_status_merge" /\ pc' = pc /\ k' = k) => status' = status]_vars

\* C26 witness: a lost update. cmd_verify recorded its outcome for a model
\* while update_status was merging, both runs have finished, and the ledger
\* file has no entry of that model.
C26_LostUpdate ==
    /\ pc = "report"
    /\ verifyOut.line \in {"PASSED", "FAILED"}
    /\ verifyOut.name \notin Recorded(LoadStatus)
    /\ Recorded(LoadStatus) # {}

\* The step is a whole run of cmd_verify.
VerifyRuns == pc = "idle" /\ pc' = "cmd_verify_exit"

\* C27: cmd_verify never runs the Rust engine and never touches the Rust
\* store, and when the Rust output of (model, seed) is absent it leaves the
\* ledger file as it is.
C27_VerifyNeedsCandidate ==
    [][VerifyRuns =>
        /\ \A j \in 1..Len(calls') : calls'[j].engine # "rust"
        /\ rustDir' = rustDir
        /\ rustDir[verifyOut'.name] = <<>> => statusFile' = statusFile]_vars

\* C27 witness: cmd_verify has stopped on the missing Rust output, having
\* generated the reference, over a ledger file that has entries.
C27_Witness ==
    /\ pc = "cmd_verify_exit"
    /\ verifyOut.line = "Rust output not found"
    /\ calls # <<>>
    /\ statusFile # <<>>
    /\ Recorded(LoadStatus) # {}

\* --------------------------------------------------------------- the merge
\* C28: update_status starts from the ledger file as it is, each turn of its
\* loop changes at most the verified and the failed entry of the model of the
\* result it merges, leaves the skipped mapping alone and removes no entry
\* but failed[M] of a model M it records as verified, and the file it writes
\* is the dict so merged.
C28_MergeTouchesOnlyItsModels ==
    [][/\ pc = "update_status" => status' = LoadStatus
       /\ Merging =>
            /\ \A m \in ModelNames \ {results[k].name} :
                 /\ SameEntry(status.verified, status'.verified, m)
                 /\ SameEntry(status.failed, status'.failed, m)
            /\ status'.skipped = status.skipped
            /\ DOMAIN status.verified \subseteq DOMAIN status'.verified
            /\ DOMAIN status.failed \ DOMAIN status'.failed \subseteq
                 (IF results[k].status = "verified" THEN {results[k].name} ELSE {})
            /\ results[k].status \notin {"verified", "failed"} => status' = status
       /\ (pc = "update_status_merge" /\ pc' = "report") => statusFile' = <<status>>]_vars

\* C28 witness: a run that verified Basic has written the ledger, in which
\* Growth is failed and WaveFlowers skipped, entries only an earlier run can
\* have made, and Basic is verified and not failed.
C28_Witness ==
    /\ pc = "report"
    /\ results[1].status = "verified"
    /\ "Growth" \in DOMAIN LoadStatus.failed
    /\ "Growth" \notin DOMAIN LoadStatus.verified
    /\ "WaveFlowers" \in DOMAIN LoadStatus.skipped
    /\ "Basic" \in DOMAIN LoadStatus.verified
    /\ "Basic" \notin DOMAIN LoadStatus.failed

\* compare_grids.compare returned o and o reports a match.
GridsMatch(o) ==
    /\ o.raised = ""
    /\ o.result.dimensions_match
    /\ HasKey(o.result, "is_perfect")
    /\ o.result.is_perfect

\* C29, as stated: on every pair of grid state files the three comparators
\* return (none raises), report a match for the same pairs, and report the
\* same accuracy when they report cells that differ.
C29_ComparatorsAgree ==
    cmpOut.fn \in {"compare_grids.compare", "batch_verify.compare",
                   "verification_status.compare_outputs"} =>
        LET g == IF Called("compare_grids.compare") THEN cmpOut.out
                 ELSE GridsCompare(cmpCsharp, cmpRust)
            b == IF Called("batch_verify.compare") THEN cmpOut.out
                 ELSE BatchCompare(<<cmpCsharp>>, <<cmpRust>>)
            v == IF Called("verification_status.compare_outputs") THEN cmpOut.out
                 ELSE CompareOutputs(<<cmpCsharp>>, <<cmpRust>>)
        IN  /\ g.raised = ""
            /\ ~HasKey(b, "raised")
            /\ v.raised = ""
            /\ GridsMatch(g) <=> b.is_match
            /\ b.is_match <=> v.is_match
            /\ b.message.kind = "differ" =>
                 /\ HasKey(g.result, "accuracy")
                 /\ g.result.accuracy = b.accuracy
                 /\ v.accuracy = b.accuracy

\* ---------------------------------------------------------------- cmd_status
\* C30, as stated: the counts cmd_status prints put every catalog model that
\* is not a test model in exactly one of verified, failed, skipped and
\* pending: the four counts sum to the total, none of them is negative, and
\* no such model is counted in two of verified, failed and skipped.
C30_CountsPartition ==
    pc = "cmd_status_exit" =>
        /\ verifyOut.line = "status"
        /\ LET c == verifyOut.counts
           IN  /\ c.verified + c.failed + c.skipped + c.pending = c.total
               /\ c.pending >= 0
               /\ \A j \in 1..Len(all_models) :
                    LET m == all_models[j].name
                    IN  m \notin TEST_MODELS =>
                          Cardinality({s \in {"verified", "failed", "skipped"} :
                              m \in DOMAIN LoadStatus[s]
                                   \cup (IF s = "skipped" THEN KNOWN_UNSUPPORTED ELSE {})}) <= 1

====
